---------------------------- MODULE Spec2Model ----------------------------
(***************************************************************************)
(* Model of blainehan/regi: the region-code resolver of src/region.py      *)
(* (fetch_region_cd over _fetch_json_with_fallback and _filter_codes, and  *)
(* the CLI main that reports its result) and the lot parser / PNU codec    *)
(* (parse_lot, make_pnu).                                                  *)
(*                                                                         *)
(* Python strings are modelled as sequences of one-character atoms.  The   *)
(* Hangul syllable U+C0B0 (the mountain marker of a lot text) is the atom  *)
(* "SAN"; "\t" is the tab; "d3" is U+0663, a decimal digit outside ASCII   *)
(* (Python's \d, \D and int() treat it as a digit of value 3).             *)
(***************************************************************************)
EXTENDS Integers, Sequences, FiniteSets, TLC

VARIABLES
    \* ---- resolver (fetch_region_cd) and the CLI main around it ----
    q,          \* args.q, the query handed to fetch_region_cd
    scan_all,   \* not args.no_scan
    pc,         \* "direct": in the direct fetch; "scan": in the fetch of
                \* PROVINCES[prov]; "returned": fetch_region_cd has ended;
                \* "done": main has ended ("idle" under SpecPnu)
    prov,       \* index into PROVINCES of the province being fetched
    attempt,    \* _fetch_json_with_fallback: loop variable attempt
    scheme,     \* _fetch_json_with_fallback: index into SCHEMES of the next request
    last_err,   \* _fetch_json_with_fallback: last_err
    found,      \* fetch_region_cd: found
    dbg,        \* fetch_region_cd: dbg
    ret,        \* what fetch_region_cd returned or raised
    hist,       \* history: one record per finished fetch (target, outcome, rows)
    args,       \* the command line that main was run with
    report,     \* what main printed and its exit status
    logging,    \* history: whether the requests are logged and counted
    reqs,       \* history: the requests of the fetch under way or just ended
    nreq,       \* history: the number of requests made so far
    \* ---- _filter_codes and _rows_from_json applied on their own ----
    ppc,        \* position: "start", "done" ("idle" under Spec and SpecPnu)
    frows,      \* the rows handed to _filter_codes
    fquery,     \* the query handed to _filter_codes
    fout,       \* what _filter_codes of src/region.py returned
    fout_v12,   \* what _filter_codes of src/region/region.py returned
    env,        \* the parsed JSON handed to _rows_from_json
    eout,       \* what _rows_from_json returned
    \* ---- the handler of src/region/api/region.py ----
    hpc,        \* position: "start", "https", "http", "done" ("idle" elsewhere)
    hin,        \* the parameters of the GET request
    hlog,       \* history: the requests that _codes has made
    hresp,      \* the response that _json has written
    \* ---- lot parser / PNU codec (parse_lot, make_pnu) ----
    mode,       \* "pipeline": main's parse_lot -> make_pnu; "encode": make_pnu called on its own
    lot,        \* the lot text handed to parse_lot
    region_cd,  \* the region code handed to make_pnu
    lotspec,    \* the (san, main, sub) handed to make_pnu
    cpc,        \* position: "start", "parsed", "done" ("idle" under Spec)
    pnu         \* outcome of make_pnu (or the propagated parse_lot failure)

resVars == <<q, scan_all, pc, prov, attempt, scheme, last_err, found, dbg, ret,
             hist, args, report, logging, reqs, nreq>>
codecVars == <<mode, lot, region_cd, lotspec, cpc, pnu>>
pureVars == <<ppc, frows, fquery, fout, fout_v12, env, eout>>
apiVars == <<hpc, hin, hlog, hresp>>
vars == <<q, scan_all, pc, prov, attempt, scheme, last_err, found, dbg, ret,
          hist, args, report, logging, reqs, nreq, mode, lot, region_cd, lotspec, cpc, pnu,
          ppc, frows, fquery, fout, fout_v12, env, eout,
          hpc, hin, hlog, hresp>>

----------------------------------------------------------------------------
(* Strings *)

Whitespace == {" ", "\t"}
AsciiDigits == {"0", "1", "2", "3", "4", "5", "6", "7", "8", "9"}
\* Python 3 str patterns: \d is any Unicode decimal digit, not only [0-9]
UnicodeDigits == AsciiDigits \cup {"d3"}

IsSpace(c) == c \in Whitespace
IsDigit(c) == c \in UnicodeDigits

DigitVal(c) ==
    CASE c = "0" -> 0 [] c = "1" -> 1 [] c = "2" -> 2 [] c = "3" -> 3
      [] c = "4" -> 4 [] c = "5" -> 5 [] c = "6" -> 6 [] c = "7" -> 7
      [] c = "8" -> 8 [] c = "9" -> 9 [] c = "d3" -> 3

DigitChar(d) ==
    CASE d = 0 -> "0" [] d = 1 -> "1" [] d = 2 -> "2" [] d = 3 -> "3"
      [] d = 4 -> "4" [] d = 5 -> "5" [] d = 6 -> "6" [] d = 7 -> "7"
      [] d = 8 -> "8" [] d = 9 -> "9"

\* s[i..j] (1-based, inclusive); empty when i > j
Slice(s, i, j) == SubSeq(s, i, j)

\* str.strip(): drop leading and trailing whitespace
RECURSIVE LStrip(_)
LStrip(s) == IF s # <<>> /\ IsSpace(Head(s)) THEN LStrip(Tail(s)) ELSE s

RECURSIVE RStrip(_)
RStrip(s) ==
    IF s # <<>> /\ IsSpace(s[Len(s)]) THEN RStrip(Slice(s, 1, Len(s) - 1)) ELSE s

Strip(s) == RStrip(LStrip(s))

\* int(text) of a run of digits
RECURSIVE IntOf(_)
IntOf(ds) ==
    IF ds = <<>> THEN 0
    ELSE 10 * IntOf(Slice(ds, 1, Len(ds) - 1)) + DigitVal(ds[Len(ds)])

\* str(n) for n >= 0
RECURSIVE DecimalOf(_)
DecimalOf(n) ==
    IF n < 10 THEN <<DigitChar(n)>>
    ELSE DecimalOf(n \div 10) \o <<DigitChar(n % 10)>>

\* re.sub(r"\D", "", s): keep the digits of s
RECURSIVE DigitsOnly(_)
DigitsOnly(s) ==
    IF s = <<>> THEN <<>>
    ELSE IF IsDigit(Head(s)) THEN <<Head(s)>> \o DigitsOnly(Tail(s))
    ELSE DigitsOnly(Tail(s))

\* end (inclusive) of the maximal run of characters of class cls starting at i;
\* i - 1 when s[i] is not of the class
RECURSIVE RunEnd(_, _, _)
RunEnd(s, i, cls) ==
    IF i <= Len(s) /\ s[i] \in cls THEN RunEnd(s, i + 1, cls) ELSE i - 1


----------------------------------------------------------------------------
(* parse_lot *)

Found(a, b) == [found |-> TRUE, start |-> a, end |-> b]
NotFound == [found |-> FALSE, start |-> 0, end |-> 0]

\* the rest of (?:^|\s)SAN(?:\s|$) once the marker is expected at position p:
\* the position after the match, or 0. \s is tried before $.
SanTail(s, p) ==
    IF p <= Len(s) /\ s[p] = "SAN"
    THEN IF p + 1 <= Len(s) /\ IsSpace(s[p + 1]) THEN p + 2
         ELSE IF p = Len(s) THEN p + 1
         ELSE 0
    ELSE 0

\* a match of (?:^|\s)SAN(?:\s|$) starting at position i: ^ is tried before \s
SanMatchAt(s, i) ==
    LET viaStart == IF i = 1 THEN SanTail(s, 1) ELSE 0
    IN  IF viaStart # 0 THEN viaStart
        ELSE IF i <= Len(s) /\ IsSpace(s[i]) THEN SanTail(s, i + 1)
        ELSE 0

\* re.search(r"(?:^|\s)SAN(?:\s|$)", s): the leftmost match
SanSearch(s) ==
    LET hits == {i \in 1..Len(s) : SanMatchAt(s, i) # 0}
    IN  IF hits = {} THEN NotFound
        ELSE LET i == CHOOSE x \in hits : \A y \in hits : x <= y
             IN  Found(i, SanMatchAt(s, i))

\* re.sub(r"(?:^|\s)SAN(?:\s|$)", " ", s, count=1)
SanRemoveFirst(s) ==
    LET m == SanSearch(s)
    IN  IF m.found
        THEN Slice(s, 1, m.start - 1) \o <<" ">> \o Slice(s, m.end, Len(s))
        ELSE s

\* re.search(r"(\d+)(?:\s*-\s*(\d+))?", s): groups 1 and 2 (g2 = <<>> for None)
NumberSearch(s) ==
    LET starts == {i \in 1..Len(s) : IsDigit(s[i])}
    IN  IF starts = {} THEN [found |-> FALSE, g1 |-> <<>>, g2 |-> <<>>]
        ELSE LET i == CHOOSE x \in starts : \A y \in starts : x <= y
                 j == RunEnd(s, i, UnicodeDigits)
                 k == RunEnd(s, j + 1, Whitespace) + 1
                 l == RunEnd(s, k + 1, Whitespace) + 1
                 hasSub == /\ k <= Len(s)
                           /\ s[k] = "-"
                           /\ l <= Len(s)
                           /\ IsDigit(s[l])
             IN  [found |-> TRUE,
                  g1 |-> Slice(s, i, j),
                  g2 |-> IF hasSub THEN Slice(s, l, RunEnd(s, l, UnicodeDigits))
                         ELSE <<>>]

LotOk(san, main, sub) ==
    [st |-> "ok", san |-> san, main |-> main, sub |-> sub, err |-> "none"]
LotError(e) == [st |-> "error", san |-> 0, main |-> 0, sub |-> 0, err |-> e]
NoLot == [st |-> "none", san |-> 0, main |-> 0, sub |-> 0, err |-> "none"]

\* the marker test of parse_lot with the word boundaries dropped
san_of_anywhere(s) == IF \E i \in 1..Len(s) : s[i] = "SAN" THEN 1 ELSE 0

\* san = 1 if re.search(r"(?:^|\s)SAN(?:\s|$)", s) else 0
san_of(s) == IF SanSearch(s).found THEN 1 ELSE 0

parse_lot(text) ==
    IF text = <<>> THEN LotError("ValueError: empty lot")
    ELSE LET s0 == Strip(text)
             san == san_of(s0)
             s1 == Strip(SanRemoveFirst(s0))
             m == NumberSearch(s1)
         IN  IF ~m.found THEN LotError("ValueError: lot format")
             ELSE LotOk(san, IntOf(m.g1), IF m.g2 = <<>> THEN 0 ELSE IntOf(m.g2))

----------------------------------------------------------------------------
(* make_pnu *)

RECURSIVE ZeroPad(_, _)
ZeroPad(ds, width) == IF Len(ds) >= width THEN ds ELSE ZeroPad(<<"0">> \o ds, width)

\* format(n, "04d") with the field one digit short
Fmt04Narrow(n) ==
    IF n >= 0 THEN ZeroPad(DecimalOf(n), 3)
    ELSE <<"-">> \o ZeroPad(DecimalOf(-n), 2)

\* f"{int(n):04d}": zero-padded to width 4 (the sign counts), never truncated
Fmt04(n) ==
    IF n >= 0 THEN ZeroPad(DecimalOf(n), 4)
    ELSE <<"-">> \o ZeroPad(DecimalOf(-n), 3)

PnuOk(v) == [st |-> "ok", val |-> v, err |-> "none"]
PnuError(e) == [st |-> "error", val |-> <<>>, err |-> e]
NoPnu == [st |-> "none", val |-> <<>>, err |-> "none"]

\* make_pnu with the length test of the region code dropped
make_pnu_unchecked(rcd, san, main, sub) ==
    PnuOk(DigitsOnly(rcd) \o <<IF san # 0 THEN "1" ELSE "0">>
          \o Fmt04(main) \o Fmt04(sub))

make_pnu(rcd, san, main, sub) ==
    LET rc == DigitsOnly(rcd)
    IN  IF Len(rc) # 10 THEN PnuError("ValueError: region_cd length")
        ELSE PnuOk(rc \o <<IF san # 0 THEN "1" ELSE "0">>
                   \o Fmt04(main) \o Fmt04(sub))

----------------------------------------------------------------------------
(* _rows_from_json *)

\* a JSON value where a list is looked for: a list of items, or anything else
\* (the key is missing, or its value is no list)
List(xs) == [kind |-> "list", items |-> xs]
NoList == [kind |-> "other", items |-> <<>>]

\* an element of a "row" or "head" list: a dict with its content, or not a dict
Dict(v) == [dict |-> TRUE, val |-> v]

\* an element of "StanReginCd": a dict with its "row" and "head", or not a dict
Block(row, head) == [dict |-> TRUE, row |-> row, head |-> head]
NotABlock == [dict |-> FALSE, row |-> NoList, head |-> NoList]

\* the parsed body: a dict with its "StanReginCd", or not a dict
Data(blocks) == [dict |-> TRUE, StanReginCd |-> blocks]
NotAnObject == [dict |-> FALSE, StanReginCd |-> NoList]

\* [x for x in b["row"] if isinstance(x, dict)]
RECURSIVE DictsOf(_)
DictsOf(items) ==
    IF items = <<>> THEN <<>>
    ELSE (IF Head(items).dict THEN <<Head(items).val>> ELSE <<>>)
             \o DictsOf(Tail(items))

\* for b in blocks: ...
RECURSIVE RowsFromBlocks(_, _, _)
RowsFromBlocks(blocks, rows, head) ==
    IF blocks = <<>> THEN [rows |-> rows, head |-> head]
    ELSE LET b == Head(blocks)
             rows1 == IF b.dict /\ b.row.kind = "list"
                      THEN rows \o DictsOf(b.row.items) ELSE rows
             head1 == IF /\ b.dict
                         /\ b.head.kind = "list"
                         /\ b.head.items # <<>>
                         /\ b.head.items[1].dict
                      THEN b.head.items[1].val ELSE head
         IN  RowsFromBlocks(Tail(blocks), rows1, head1)

\* a dict of the header is the set of its <<key, value>> pairs; {} is {}
_rows_from_json(data) ==
    IF data.dict /\ data.StanReginCd.kind = "list"
    THEN RowsFromBlocks(data.StanReginCd.items, <<>>, {})
    ELSE [rows |-> <<>>, head |-> {}]

----------------------------------------------------------------------------
(* _filter_codes *)

Range(f) == {f[i] : i \in DOMAIN f}

\* [t for t in re.split(r"\s+", query.strip()) if t]
RECURSIVE Tokens(_)
Tokens(s) ==
    LET t == LStrip(s)
    IN  IF t = <<>> THEN <<>>
        ELSE LET e == RunEnd(t, 1, Range(t) \ Whitespace)
             IN  <<Slice(t, 1, e)>> \o Tokens(Slice(t, e + 1, Len(t)))

\* t in hay
Contains(hay, t) ==
    \E i \in 0..(Len(hay) - Len(t)) : Slice(hay, i + 1, i + Len(t)) = t

\* code points order the characters of a code
CharOrd(c) ==
    CASE c = "d3" -> 1635
      [] c = "-" -> 45
      [] OTHER -> 48 + DigitVal(c)

\* a < b for Python strings of digits
RECURSIVE StrLess(_, _)
StrLess(a, b) ==
    IF b = <<>> THEN FALSE
    ELSE IF a = <<>> THEN TRUE
    ELSE IF Head(a) # Head(b) THEN CharOrd(Head(a)) < CharOrd(Head(b))
    ELSE StrLess(Tail(a), Tail(b))

\* sorted(set(out))
RECURSIVE SortedSet(_)
SortedSet(S) ==
    IF S = {} THEN <<>>
    ELSE LET m == CHOOSE x \in S : \A y \in S \ {x} : StrLess(x, y)
         IN  <<m>> \o SortedSet(S \ {m})

\* f"{r.get('locatadd_nm','')} {r.get('locallow_nm','')}"
Hay(r) == r.locatadd_nm \o <<" ">> \o r.locallow_nm

\* the append of one row with any(...) in the place of all(...)
RowCodesAnyToken(r, tokens) ==
    IF /\ \E k \in 1..Len(tokens) : Contains(Hay(r), tokens[k])
       /\ r.region_cd # <<>>
       /\ Len(DigitsOnly(r.region_cd)) = 10
    THEN <<DigitsOnly(r.region_cd)>>
    ELSE <<>>

\* the append of one row to out: region_cd = <<>> stands for a missing or empty field
RowCodes(r, tokens) ==
    IF /\ \A k \in 1..Len(tokens) : Contains(Hay(r), tokens[k])
       /\ r.region_cd # <<>>
       /\ Len(DigitsOnly(r.region_cd)) = 10
    THEN <<DigitsOnly(r.region_cd)>>
    ELSE <<>>

RECURSIVE FilterOut(_, _)
FilterOut(rows, tokens) ==
    IF rows = <<>> THEN <<>>
    ELSE RowCodes(Head(rows), tokens) \o FilterOut(Tail(rows), tokens)

\* _filter_codes with return out in the place of return sorted(set(out))
_filter_codes_unsorted(rows, query) == FilterOut(rows, Tokens(query))

_filter_codes(rows, query) == SortedSet(Range(FilterOut(rows, Tokens(query))))

\* _filter_codes of src/region/region.py: out.append(str(rc)), the code as it came
RowCodes_v12(r, tokens) ==
    IF /\ \A k \in 1..Len(tokens) : Contains(Hay(r), tokens[k])
       /\ r.region_cd # <<>>
    THEN <<r.region_cd>>
    ELSE <<>>

RECURSIVE FilterOut_v12(_, _)
FilterOut_v12(rows, tokens) ==
    IF rows = <<>> THEN <<>>
    ELSE RowCodes_v12(Head(rows), tokens) \o FilterOut_v12(Tail(rows), tokens)

_filter_codes_v12(rows, query) ==
    SortedSet(Range(FilterOut_v12(rows, Tokens(query))))

----------------------------------------------------------------------------
(* fetch_region_cd: data *)

NProv == 3
Tries == 2

\* the two bases taken in the other order
SCHEMES_HttpFirst == <<"http", "https">>

SCHEMES == <<"https", "http">>

\* PROVINCES of the source, in its order (romanised)
AllProvinces ==
    <<"Seoul", "Busan", "Daegu", "Incheon", "Gwangju", "Daejeon", "Ulsan",
      "Sejong", "Gyeonggi", "Gangwon-teukbyeol", "Gangwon", "Chungbuk",
      "Chungnam", "Jeonbuk-teukbyeol", "Jeonbuk", "Jeonnam", "Gyeongbuk",
      "Gyeongnam", "Jeju">>

\* the first NProv of them
PROVINCES == [i \in 1..NProv |-> AllProvinces[((i - 1) % Len(AllProvinces)) + 1]]

NoErr == [type |-> "None", scheme |-> "none", attempt |-> 0]
\* the exception of the request of (attempt, scheme): urlopen or json.loads raised
RequestError(a, sch) == [type |-> "OSError", scheme |-> sch, attempt |-> a]
\* <scalar>.append(...) on a dbg entry that the response header overwrote
AttrError == [type |-> "AttributeError", scheme |-> "none", attempt |-> 0]

\* dbg = {"query": q}.  The keys "scanned" and "scan_errors" are absent, a list
\* that fetch_region_cd made, or a scalar that a header of the response put there.
Dbg0(query) ==
    [query |-> query, phase |-> "none", scheme |-> "none", head |-> {},
     direct_error |-> NoErr,
     scanned_kind |-> "absent", scanned |-> <<>>,
     errors_kind |-> "absent", scan_errors |-> <<>>]

Returned(codes) == [st |-> "return", codes |-> codes, err |-> NoErr]
Raised(e) == [st |-> "raise", codes |-> <<>>, err |-> e]
NoRet == [st |-> "none", codes |-> <<>>, err |-> NoErr]

\* last_err keeps the first exception
LastErrFirst(prev, e) == IF prev = NoErr THEN e ELSE prev

\* except Exception as e: last_err = e
LastErr(prev, e) == e

\* up.quote(q): a blank and a tab are escaped, a letter of a word stays
Quote(s) ==
    [i \in 1..Len(s) |->
        CASE s[i] = " " -> "%20"
          [] s[i] = "\t" -> "%09"
          [] OTHER -> s[i]]

\* the query string of a request; serviceKey, pageNo, numOfRows and type do
\* not bear on the filter and are left out
_build_qs(query) == [locatadd_nm |-> Quote(query)]

\* a fetch that answers with no rows whatever the response carried
FetchOkNoRows(rows, head, sch) ==
    [ok |-> TRUE, rows |-> <<>>, head |-> head, scheme |-> sch, err |-> NoErr]

FetchOk(rows, head, sch) ==
    [ok |-> TRUE, rows |-> rows, head |-> head, scheme |-> sch, err |-> NoErr]
FetchRaised(e) ==
    [ok |-> FALSE, rows |-> <<>>, head |-> {}, scheme |-> "none", err |-> e]

----------------------------------------------------------------------------
(* fetch_region_cd: the direct phase and the body of the scan loop *)

\* dbg.update({"phase": "direct", "scheme": scheme, **head})
MergeHead(d, o) ==
    [d EXCEPT !.phase = "direct", !.scheme = o.scheme, !.head = o.head,
              !.scanned_kind = IF "scanned" \in o.head THEN "scalar" ELSE @,
              !.errors_kind = IF "scan_errors" \in o.head THEN "scalar" ELSE @]

Step(st, d, f, codes, e) ==
    [st |-> st, dbg |-> d, found |-> f, codes |-> codes, err |-> e]

\* the direct phase with the fetch failure not caught
DirectPhaseNoCatch(d, query, o) ==
    IF o.ok
    THEN LET d1 == MergeHead(d, o)
             codes == IF o.rows # <<>> THEN _filter_codes(o.rows, query) ELSE <<>>
         IN  IF codes # <<>> THEN Step("return", d1, <<>>, codes, NoErr)
             ELSE Step("next", d1, <<>>, <<>>, NoErr)
    ELSE Step("raise", d, <<>>, <<>>, o.err)

\* the direct phase that never returns early
DirectPhaseNoReturn(d, query, o) ==
    IF o.ok THEN Step("next", MergeHead(d, o), <<>>, <<>>, NoErr)
    ELSE Step("next", [d EXCEPT !.direct_error = o.err], <<>>, <<>>, NoErr)

\* the try block of the direct phase on the outcome o of its fetch:
\* "return" with the codes, or "next" (fall through to the scan test)
DirectPhase(d, query, o) ==
    IF o.ok
    THEN LET d1 == MergeHead(d, o)
             codes == IF o.rows # <<>> THEN _filter_codes(o.rows, query) ELSE <<>>
         IN  IF codes # <<>> THEN Step("return", d1, <<>>, codes, NoErr)
             ELSE Step("next", d1, <<>>, <<>>, NoErr)
    ELSE Step("next", [d EXCEPT !.direct_error = o.err], <<>>, <<>>, NoErr)

\* except Exception as e: dbg.setdefault("scan_errors", []).append({prov: repr(e)})
ScanHandler(d, f, p, e) ==
    IF d.errors_kind = "scalar" THEN Step("raise", d, f, <<>>, AttrError)
    ELSE Step("next",
              [d EXCEPT !.errors_kind = "list",
                        !.scan_errors = Append(@, [prov |-> PROVINCES[p], err |-> e])],
              f, <<>>, NoErr)

\* one pass of the scan loop for province p on the outcome o of its fetch
ScanBody(d, f, query, p, o) ==
    IF ~o.ok THEN ScanHandler(d, f, p, o.err)
    ELSE IF d.scanned_kind = "scalar" THEN ScanHandler(d, f, p, AttrError)
    ELSE LET d1 == [d EXCEPT !.scanned_kind = "list",
                             !.scanned = Append(@, [prov |-> PROVINCES[p],
                                                    count |-> Len(o.rows),
                                                    scheme |-> o.scheme])]
             f1 == IF o.rows # <<>> THEN f \o _filter_codes(o.rows, query) ELSE f
         IN  IF f1 # <<>> THEN Step("return", d1, f1, SortedSet(Range(f1)), NoErr)
             ELSE Step("next", d1, f1, <<>>, NoErr)

----------------------------------------------------------------------------
(* main: what the CLI reports for a result of fetch_region_cd *)

Report(exit, stream, kind, codes, p, shown) ==
    [exit |-> exit, stream |-> stream, kind |-> kind, codes |-> codes,
     pnu |-> p, debug |-> shown]
NoReport == Report(-1, "none", "none", <<>>, <<>>, FALSE)

\* main has not been entered
NoArgs == [json |-> FALSE, pnu |-> FALSE, first |-> FALSE, debug |-> FALSE,
           lot |-> <<>>]

\* an uncaught exception ends the process with a traceback and status 1
Traceback == Report(1, "stderr", "traceback", <<>>, <<>>, FALSE)

\* main with the test of len(codes) > 1 and not args.first left out
main_no_ambiguity(r, a) ==
    IF r.st = "raise" THEN Traceback
    ELSE IF r.codes = <<>>
    THEN Report(2, IF a.json THEN "stdout" ELSE "stderr", "not_found",
                <<>>, <<>>, FALSE)
    ELSE IF a.pnu
    THEN IF a.lot = <<>>
         THEN Report(2, IF a.json THEN "stdout" ELSE "stderr", "lot_required",
                     <<>>, <<>>, FALSE)
         ELSE LET l == parse_lot(a.lot)
              IN  IF l.st = "error"
                  THEN Report(2, IF a.json THEN "stdout" ELSE "stderr",
                              "lot_error", <<>>, <<>>, FALSE)
                  ELSE LET p == make_pnu(r.codes[1], l.san, l.main, l.sub)
                       IN  IF p.st = "error" THEN Traceback
                           ELSE Report(0, "stdout", "pnu", <<r.codes[1]>>, p.val,
                                       a.json /\ a.debug)
    ELSE Report(0, "stdout", "codes", r.codes, <<>>, a.json /\ a.debug)

main(r, a) ==
    IF r.st = "raise" THEN Traceback
    ELSE IF r.codes = <<>>
    THEN Report(2, IF a.json THEN "stdout" ELSE "stderr", "not_found",
                <<>>, <<>>, FALSE)
    ELSE IF a.pnu
    THEN IF a.lot = <<>>
         THEN Report(2, IF a.json THEN "stdout" ELSE "stderr", "lot_required",
                     <<>>, <<>>, FALSE)
         ELSE LET l == parse_lot(a.lot)
              IN  IF l.st = "error"
                  THEN Report(2, IF a.json THEN "stdout" ELSE "stderr",
                              "lot_error", <<>>, <<>>, FALSE)
                  ELSE IF Len(r.codes) > 1 /\ ~a.first
                  THEN Report(4, IF a.json THEN "stdout" ELSE "stderr",
                              "ambiguous", r.codes, <<>>, FALSE)
                  ELSE LET p == make_pnu(r.codes[1], l.san, l.main, l.sub)
                       IN  IF p.st = "error" THEN Traceback
                           ELSE Report(0, "stdout", "pnu", <<r.codes[1]>>, p.val,
                                       a.json /\ a.debug)
    ELSE Report(0, "stdout", "codes", r.codes, <<>>, a.json /\ a.debug)

----------------------------------------------------------------------------
(* Inputs of the lot parser and the PNU codec *)

MaxLotLen == 5
MaxRegionDigits == 11

SeqsUpTo(S, n) == UNION {[1..k -> S] : k \in 0..n}

LotAlphabet == {"SAN", " ", "-", "1", "0", "a"}

\* the lot texts of parse_lot's docstring and of the --lot help
Lot_2_14 == <<"2", "-", "1", "4">>
Lot_San_176_18 == <<"SAN", " ", "1", "7", "6", "-", "1", "8">>
Lot_176 == <<"1", "7", "6">>
Lot_abc == <<"a", "b", "c">>
LotExamples ==
    {Lot_2_14, Lot_San_176_18, Lot_176, Lot_abc,
     <<"2">>,
     <<"SAN", "1", "7", "6", "-", "1", "8">>,
     <<"1", "7", "6", "-", "0">>,
     <<"a", "b", "c", " ", "SAN", " ", "1", "-", "1">>,
     <<"SAN", "\t", "0", "0", "7", " ", "-", "\t", "d3", "0">>,
     <<"1", " ", "-", " ", "SAN", " ", "2">>}

LotTexts == SeqsUpTo(LotAlphabet, MaxLotLen) \cup LotExamples

\* 1168010300 repeated: the digits region codes are cut from
DigitSource == [i \in 1..(MaxRegionDigits + 1) |->
                   <<"1", "1", "6", "8", "0", "1", "0", "3", "0", "0">>[((i - 1) % 10) + 1]]

\* s with a "-" put after every k-th character
RECURSIVE Dashed(_, _)
Dashed(s, k) ==
    IF Len(s) <= k THEN s
    ELSE Slice(s, 1, k) \o <<"-">> \o Dashed(Slice(s, k + 1, Len(s)), k)

Region_12345 == <<"1", "2", "3", "4", "5">>
Region_12345678901 == <<"1", "2", "3", "4", "5", "6", "7", "8", "9", "0", "1">>
\* "region-cd-12345-6789x0"
Region_cd_12345_6789x0 ==
    <<"r", "e", "g", "i", "o", "n", "-", "c", "d", "-",
      "1", "2", "3", "4", "5", "-", "6", "7", "8", "9", "x", "0">>
Region_1168010300 == <<"1", "1", "6", "8", "0", "1", "0", "3", "0", "0">>
\* ten decimal digits, the last one not ASCII
Region_116801030d3 == <<"1", "1", "6", "8", "0", "1", "0", "3", "0", "d3">>

RegionTexts ==
    {Slice(DigitSource, 1, n) : n \in 0..MaxRegionDigits}
    \cup {Dashed(Slice(DigitSource, 1, n), 5) : n \in 0..MaxRegionDigits}
    \cup {<<" ">> \o Slice(DigitSource, 1, n) \o <<"x">> : n \in 0..MaxRegionDigits}
    \cup {Region_12345, Region_12345678901, Region_cd_12345_6789x0,
          Region_1168010300, Region_116801030d3}

\* main hands codes[0] to make_pnu: a code that came out of _filter_codes
PipelineRegions == {Region_1168010300}

NumSamples == {0, 1, 9, 10, 99, 100, 999, 1000, 9999, 10000, 12345}
SanSamples == {0, 1, 2}

----------------------------------------------------------------------------
(* The lot parser and the PNU codec as a state machine *)

\* the codec is not running
CodecIdle ==
    /\ mode = "idle" /\ lot = <<>> /\ region_cd = <<>> /\ lotspec = NoLot
    /\ cpc = "idle" /\ pnu = NoPnu

\* the resolver is not running
ResIdle ==
    /\ q = <<>> /\ scan_all = FALSE /\ pc = "idle" /\ prov = 0
    /\ attempt = 0 /\ scheme = 1 /\ last_err = NoErr /\ found = <<>>
    /\ dbg = Dbg0(<<>>) /\ ret = NoRet /\ hist = <<>>
    /\ args = NoArgs /\ report = NoReport
    /\ logging = FALSE /\ reqs = <<>> /\ nreq = 0

\* the response that is not yet written
NoResp == [status |-> 0, ok |-> FALSE, codes |-> <<>>, error |-> "none"]

\* the handler is not running
ApiIdle ==
    /\ hpc = "idle"
    /\ hin = [q |-> <<>>, key |-> FALSE, page |-> FALSE]
    /\ hlog = <<>>
    /\ hresp = NoResp

\* no function is applied on its own
PureIdle ==
    /\ ppc = "idle" /\ frows = <<>> /\ fquery = <<>> /\ fout = <<>>
    /\ fout_v12 = <<>> /\ env = <<>> /\ eout = <<>>

InitPnu ==
    /\ ResIdle
    /\ PureIdle
    /\ ApiIdle
    /\ cpc = "start"
    /\ pnu = NoPnu
    /\ \/ /\ mode = "pipeline"
          /\ lot \in LotTexts
          /\ region_cd \in PipelineRegions
          /\ lotspec = NoLot
       \/ /\ mode = "encode"
          /\ lot = <<>>
          /\ region_cd \in RegionTexts
          /\ lotspec \in {LotOk(a, b, c) : a \in SanSamples,
                                           b \in NumSamples, c \in NumSamples}

\* main: san, main, sub = parse_lot(args.lot)
ParseLot ==
    /\ mode = "pipeline"
    /\ cpc = "start"
    /\ lotspec' = parse_lot(lot)
    /\ cpc' = "parsed"
    /\ UNCHANGED <<mode, lot, region_cd, pnu>>
    /\ UNCHANGED resVars
    /\ UNCHANGED pureVars
    /\ UNCHANGED apiVars

\* main: parse_lot raised, no PNU is built
ParseFailed ==
    /\ cpc = "parsed"
    /\ lotspec.st = "error"
    /\ pnu' = PnuError(lotspec.err)
    /\ cpc' = "done"
    /\ UNCHANGED <<mode, lot, region_cd, lotspec>>
    /\ UNCHANGED resVars
    /\ UNCHANGED pureVars
    /\ UNCHANGED apiVars

\* main: pnu = make_pnu(rc, san, main, sub)
MakePnu ==
    /\ cpc = "parsed"
    /\ lotspec.st = "ok"
    /\ pnu' = make_pnu(region_cd, lotspec.san, lotspec.main, lotspec.sub)
    /\ cpc' = "done"
    /\ UNCHANGED <<mode, lot, region_cd, lotspec>>
    /\ UNCHANGED resVars
    /\ UNCHANGED pureVars
    /\ UNCHANGED apiVars

\* make_pnu called on its own
Encode ==
    /\ mode = "encode"
    /\ cpc = "start"
    /\ pnu' = make_pnu(region_cd, lotspec.san, lotspec.main, lotspec.sub)
    /\ cpc' = "done"
    /\ UNCHANGED <<mode, lot, region_cd, lotspec>>
    /\ UNCHANGED resVars
    /\ UNCHANGED pureVars
    /\ UNCHANGED apiVars

NextPnu == ParseLot \/ ParseFailed \/ MakePnu \/ Encode

SpecPnu == InitPnu /\ [][NextPnu]_vars

----------------------------------------------------------------------------
(* Inputs of the resolver: queries, registry rows, responses, CLI arguments *)

\* address words: S = Seoul-si, G = Gangnam-gu, K = Gaepo-dong, P = Gyeonggi-do,
\* Y = Yongin-si, J = Yangjae-dong
Query_K == <<"K">>
Query_G_K == <<"G", " ", "K">>
Queries == {Query_K, Query_G_K}
\* a query as typed, with blanks around it and a run of whitespace inside
Query_raw == <<" ", "G", " ", "\t", "K", " ">>
LoggedQueries == Queries \cup {Query_raw}

Code_1168010300 == <<"1", "1", "6", "8", "0", "1", "0", "3", "0", "0">>
Code_4159010100 == <<"4", "1", "5", "9", "0", "1", "0", "1", "0", "0">>

Row(a, b, c) == [locatadd_nm |-> a, locallow_nm |-> b, region_cd |-> c]
Row_SGK == Row(<<"S", " ", "G", " ", "K">>, <<"K">>, Code_1168010300)
Row_PYK == Row(<<"P", " ", "Y", " ", "K">>, <<>>, Code_4159010100)
\* the address matches, the code does not reduce to 10 digits
Row_BadCode == Row(<<"S", " ", "G", " ", "K">>, <<"K">>, <<"1", "1", "6", "8", "0">>)
Row_SGJ == Row(<<"S", " ", "G", " ", "J">>, <<"J">>,
               <<"1", "1", "6", "5", "0", "1", "0", "2", "0", "0">>)

\* the row lists a response of the registry may carry
Responses ==
    {<<>>, <<Row_SGJ, Row_BadCode>>, <<Row_SGK>>,
     <<Row_PYK, Row_SGK, Row_PYK>>}

\* the keys of head[0] of a response (values are scalars): none, the registry's
\* own totalCount, or a key that fetch_region_cd also keeps in dbg
HeadOptions == {{}, {"totalCount"}, {"scanned"}, {"scan_errors"}}

\* a logged run: no row or a matching row, a plain header or a colliding one
LoggedResponses == {<<>>, <<Row_SGK>>}
LoggedHeads == {{}, {"scan_errors"}}

\* the parsed command line; flags that nothing reads are left at their defaults
Args ==
    {a \in [json : BOOLEAN, pnu : BOOLEAN, first : BOOLEAN, debug : BOOLEAN,
            lot : {<<>>, Lot_2_14, Lot_abc}] :
        /\ a.debug => a.json
        /\ (a.first \/ a.lot # <<>>) => a.pnu}

----------------------------------------------------------------------------
(* The resolver as a state machine *)

Init ==
    /\ q \in Queries
    /\ scan_all \in BOOLEAN
    /\ pc = "direct"
    /\ prov = 0
    /\ attempt = 0 /\ scheme = 1 /\ last_err = NoErr
    /\ found = <<>>
    /\ dbg = Dbg0(q)
    /\ ret = NoRet
    /\ hist = <<>>
    /\ args = NoArgs /\ report = NoReport
    /\ logging = FALSE /\ reqs = <<>> /\ nreq = 0
    /\ CodecIdle
    /\ PureIdle
    /\ ApiIdle

\* the same run with its requests logged and counted, on the responses that
\* tell an empty answer from a matching one
InitLog ==
    /\ q \in LoggedQueries
    /\ scan_all \in BOOLEAN
    /\ pc = "direct"
    /\ prov = 0
    /\ attempt = 0 /\ scheme = 1 /\ last_err = NoErr
    /\ found = <<>>
    /\ dbg = Dbg0(q)
    /\ ret = NoRet
    /\ hist = <<>>
    /\ args = NoArgs /\ report = NoReport
    /\ logging = TRUE /\ reqs = <<>> /\ nreq = 0
    /\ CodecIdle
    /\ PureIdle
    /\ ApiIdle

InFetch == pc \in {"direct", "scan"}
\* one attempt more than tries
LastRequestLate == attempt = Tries /\ scheme = Len(SCHEMES)

LastRequest == attempt = Tries - 1 /\ scheme = Len(SCHEMES)

\* the text that the filter parameter of the fetch under way is built from:
\* q in the direct phase, the province's name in the scan
FetchQuery == IF pc = "direct" THEN q ELSE <<PROVINCES[prov]>>

\* the log with the request of (attempt, scheme) added; the first request of a
\* fetch starts the log anew
Logged(ok, rows) ==
    IF logging
    THEN (IF attempt = 0 /\ scheme = 1 THEN <<>> ELSE reqs)
             \o <<[target |-> IF pc = "direct" THEN 0 ELSE prov,
                   scheme |-> SCHEMES[scheme], attempt |-> attempt,
                   qs |-> _build_qs(FetchQuery), ok |-> ok, rows |-> rows]>>
    ELSE reqs

Counted == IF logging THEN nreq + 1 ELSE nreq

\* the responses drawn from: all of them, or the two that a logged run needs
ResponsesDrawn == IF logging THEN LoggedResponses ELSE Responses
HeadsDrawn == IF logging THEN LoggedHeads ELSE HeadOptions

\* _fetch_json_with_fallback starts over for the next fetch
ResetFetch == attempt' = 0 /\ scheme' = 1 /\ last_err' = NoErr

\* fetch_region_cd ends: return or raise
Finish(r, d, f) ==
    /\ pc' = "returned"
    /\ ret' = r
    /\ dbg' = d
    /\ found' = f
    /\ prov' = prov
    /\ ResetFetch

\* the scan loop goes on with province p, or ends after the last one:
\* return sorted(set(found)), dbg
ScanFrom(p, d, f) ==
    IF p <= NProv
    THEN /\ pc' = "scan" /\ prov' = p /\ dbg' = d /\ found' = f
         /\ ret' = ret /\ ResetFetch
    ELSE Finish(Returned(SortedSet(Range(f))), d, f)

\* after the direct phase fell through: if scan_all, the loop; else return [], dbg
AfterDirect(d) ==
    IF scan_all THEN ScanFrom(1, d, <<>>) ELSE Finish(Returned(<<>>), d, <<>>)

\* the direct fetch has ended with outcome o
EndDirect(o) ==
    LET r == DirectPhase(dbg, q, o)
    IN  /\ hist' = Append(hist, [target |-> 0, ok |-> o.ok, rows |-> o.rows,
                                 err |-> o.err])
        /\ CASE r.st = "return" -> Finish(Returned(r.codes), r.dbg, found)
             [] r.st = "raise" -> Finish(Raised(r.err), r.dbg, found)
             [] r.st = "next" -> AfterDirect(r.dbg)

\* the fetch of PROVINCES[prov] has ended with outcome o
EndScan(o) ==
    LET r == ScanBody(dbg, found, q, prov, o)
    IN  /\ hist' = Append(hist, [target |-> prov, ok |-> o.ok, rows |-> o.rows,
                                 err |-> o.err])
        /\ CASE r.st = "return" -> Finish(Returned(r.codes), r.dbg, r.found)
             [] r.st = "raise" -> Finish(Raised(r.err), r.dbg, r.found)
             [] r.st = "next" -> ScanFrom(prov + 1, r.dbg, r.found)

\* a request raises (urlopen or json.loads) and another request follows
RequestFails ==
    /\ InFetch
    /\ ~LastRequest
    /\ last_err' = LastErr(last_err, RequestError(attempt, SCHEMES[scheme]))
    /\ reqs' = Logged(FALSE, <<>>)
    /\ nreq' = Counted
    /\ IF scheme < Len(SCHEMES)
       THEN scheme' = scheme + 1 /\ attempt' = attempt
       ELSE scheme' = 1 /\ attempt' = attempt + 1
    /\ UNCHANGED <<q, scan_all, pc, prov, found, dbg, ret, hist, args, report,
                   logging>>
    /\ UNCHANGED codecVars
    /\ UNCHANGED pureVars
    /\ UNCHANGED apiVars

\* a request of the direct fetch is answered: return _rows_from_json(data), scheme
DirectRequestSucceeds ==
    /\ pc = "direct"
    /\ \E rows \in ResponsesDrawn, head \in HeadsDrawn :
           /\ EndDirect(FetchOk(rows, head, SCHEMES[scheme]))
           /\ reqs' = Logged(TRUE, rows)
    /\ nreq' = Counted
    /\ UNCHANGED <<q, scan_all, args, report, logging>>
    /\ UNCHANGED codecVars
    /\ UNCHANGED pureVars
    /\ UNCHANGED apiVars

\* the last request of the direct fetch raises: raise last_err
DirectFetchFails ==
    /\ pc = "direct"
    /\ LastRequest
    /\ EndDirect(FetchRaised(LastErr(last_err, RequestError(attempt, SCHEMES[scheme]))))
    /\ reqs' = Logged(FALSE, <<>>)
    /\ nreq' = Counted
    /\ UNCHANGED <<q, scan_all, args, report, logging>>
    /\ UNCHANGED codecVars
    /\ UNCHANGED pureVars
    /\ UNCHANGED apiVars

\* a request of a province's fetch is answered
ScanRequestSucceeds ==
    /\ pc = "scan"
    /\ \E rows \in ResponsesDrawn, head \in HeadsDrawn :
           /\ EndScan(FetchOk(rows, head, SCHEMES[scheme]))
           /\ reqs' = Logged(TRUE, rows)
    /\ nreq' = Counted
    /\ UNCHANGED <<q, scan_all, args, report, logging>>
    /\ UNCHANGED codecVars
    /\ UNCHANGED pureVars
    /\ UNCHANGED apiVars

\* the last request of a province's fetch raises: raise last_err
ScanFetchFails ==
    /\ pc = "scan"
    /\ LastRequest
    /\ EndScan(FetchRaised(LastErr(last_err, RequestError(attempt, SCHEMES[scheme]))))
    /\ reqs' = Logged(FALSE, <<>>)
    /\ nreq' = Counted
    /\ UNCHANGED <<q, scan_all, args, report, logging>>
    /\ UNCHANGED codecVars
    /\ UNCHANGED pureVars
    /\ UNCHANGED apiVars

\* main goes on after fetch_region_cd and ends
Main ==
    /\ pc = "returned"
    /\ \E a \in Args : args' = a /\ report' = main(ret, a)
    /\ pc' = "done"
    /\ UNCHANGED <<q, scan_all, prov, attempt, scheme, last_err, found, dbg, ret,
                   hist, logging, reqs, nreq>>
    /\ UNCHANGED codecVars
    /\ UNCHANGED pureVars
    /\ UNCHANGED apiVars

Next ==
    \/ RequestFails
    \/ DirectRequestSucceeds
    \/ DirectFetchFails
    \/ ScanRequestSucceeds
    \/ ScanFetchFails
    \/ Main

Spec == Init /\ [][Next]_vars

SpecLog == InitLog /\ [][Next]_vars

----------------------------------------------------------------------------
(* _filter_codes applied on its own *)

MaxRows == 2

Code_11680_10300 == <<"1", "1", "6", "8", "0", "-", "1", "0", "3", "0", "0">>
Query_GK == <<"G", "K">>
Query_K_G == <<"K", " ", "G">>

\* the code is written with a hyphen
Row_Dashed == Row(<<"S", " ", "G", " ", "K">>, <<"K">>, Code_11680_10300)
\* the code has a digit that is not an ASCII digit
Row_UnicodeDigit == Row(<<"P", " ", "Y", " ", "K">>, <<"K">>, Region_116801030d3)
\* region_cd is missing
Row_NoCode == Row(<<"S", " ", "G", " ", "K">>, <<"K">>, <<>>)
\* gu and dong sit in different fields
Row_Split == Row(<<"S", " ", "G">>, <<"K">>, Code_4159010100)

FilterRows ==
    {Row_SGK, Row_PYK, Row_SGJ, Row_BadCode, Row_Dashed, Row_UnicodeDigit,
     Row_NoCode, Row_Split}
FilterQueries == {<<>>, Query_K, Query_G_K, Query_GK, Query_K_G, Query_raw}

InitFilter ==
    /\ ResIdle
    /\ CodecIdle
    /\ ApiIdle
    /\ ppc = "start"
    /\ frows \in SeqsUpTo(FilterRows, MaxRows)
    /\ fquery \in FilterQueries
    /\ fout = <<>> /\ fout_v12 = <<>>
    /\ env = <<>> /\ eout = <<>>

\* _filter_codes(rows, query), by either source file
FilterCodes ==
    /\ ppc = "start"
    /\ fout' = _filter_codes(frows, fquery)
    /\ fout_v12' = _filter_codes_v12(frows, fquery)
    /\ ppc' = "done"
    /\ UNCHANGED <<frows, fquery, env, eout>>
    /\ UNCHANGED apiVars
    /\ UNCHANGED resVars
    /\ UNCHANGED codecVars

SpecFilter == InitFilter /\ [][FilterCodes]_vars

----------------------------------------------------------------------------
(* _rows_from_json applied on its own *)

MaxBlocks == 3

Head_Total1 == {<<"totalCount", 1>>}
Head_Total2 == {<<"totalCount", 2>>}

\* the blocks of a body of the registry: a head block and a row block
Block_Head == Block(NoList, List(<<Dict(Head_Total1)>>))
Block_Rows == Block(List(<<Dict(Row_SGK), Dict(Row_PYK)>>), NoList)
\* a block with a head of its own and a row list with an element that is no dict
Block_HeadAndRows ==
    Block(List(<<[dict |-> FALSE, val |-> Row(<<>>, <<>>, <<>>)], Dict(Row_SGJ)>>),
          List(<<Dict(Head_Total2), Dict(Head_Total1)>>))
Block_EmptyHead == Block(NoList, List(<<>>))
Block_BadHead == Block(List(<<>>), List(<<[dict |-> FALSE, val |-> {}]>>))

Blocks ==
    {Block_Head, Block_Rows, Block_HeadAndRows, Block_EmptyHead, Block_BadHead,
     NotABlock}
Bodies ==
    {Data(List(bs)) : bs \in SeqsUpTo(Blocks, MaxBlocks)}
        \cup {Data(NoList), NotAnObject}

InitRows ==
    /\ ResIdle
    /\ CodecIdle
    /\ ApiIdle
    /\ ppc = "start"
    /\ env \in Bodies
    /\ eout = [rows |-> <<>>, head |-> {}]
    /\ frows = <<>> /\ fquery = <<>> /\ fout = <<>> /\ fout_v12 = <<>>

\* _rows_from_json(data)
RowsFromJson ==
    /\ ppc = "start"
    /\ eout' = _rows_from_json(env)
    /\ ppc' = "done"
    /\ UNCHANGED <<env, frows, fquery, fout, fout_v12>>
    /\ UNCHANGED apiVars
    /\ UNCHANGED resVars
    /\ UNCHANGED codecVars

SpecRows == InitRows /\ [][RowsFromJson]_vars

\* the resolver and the filter on its own, side by side
SpecCodes == (Init \/ InitFilter) /\ [][Next \/ FilterCodes]_vars

----------------------------------------------------------------------------
(* The handler of src/region/api/region.py: do_GET and _codes *)

\* rows of a response of the registry, as _rows_from_json of that file gives them
ApiRows == {Row_SGK, Row_PYK, Row_NoCode, Row_BadCode}
ApiResponses == SeqsUpTo(ApiRows, MaxRows)

\* the parameters: q as sent, whether a key is there (in the URL or in
\* PUBLICDATA_KEY), whether page and rows are numerals
ApiParams ==
    [q : {<<>>, <<" ">>, Query_K, Query_raw}, key : BOOLEAN, page : BOOLEAN]

\* self._json(status, obj)
Json(status, ok, codes, error) ==
    [status |-> status, ok |-> ok, codes |-> codes, error |-> error]

\* for r in rows_json: rc = r.get("region_cd"); if rc: out.append(str(rc))
RECURSIVE CodesOut(_)
CodesOut(rows_json) ==
    IF rows_json = <<>> THEN <<>>
    ELSE (IF Head(rows_json).region_cd # <<>>
          THEN <<Head(rows_json).region_cd>> ELSE <<>>)
             \o CodesOut(Tail(rows_json))

\* the http request made whatever the https request gave
NeedsHttpAlways(rows_json) == TRUE

\* if not rows_json
NeedsHttp(rows_json) == rows_json = <<>>

InitApi ==
    /\ ResIdle
    /\ CodecIdle
    /\ PureIdle
    /\ hpc = "start"
    /\ hin \in ApiParams
    /\ hlog = <<>>
    /\ hresp = NoResp

\* return sorted(set(out)) and do_GET's answer with it
Respond(rows_json) ==
    /\ hresp' = Json(200, TRUE, SortedSet(Range(CodesOut(rows_json))), "none")
    /\ hpc' = "done"

\* _codes after the https request has left rows_json
AfterHttps(rows_json) ==
    IF NeedsHttp(rows_json) THEN hpc' = "http" /\ hresp' = hresp
    ELSE Respond(rows_json)

\* do_GET up to the call of _codes
DoGet ==
    /\ hpc = "start"
    /\ IF ~hin.page
       THEN hresp' = Json(500, FALSE, <<>>, "ValueError") /\ hpc' = "done"
       ELSE IF Strip(hin.q) = <<>>
       THEN hresp' = Json(400, FALSE, <<>>, "q required") /\ hpc' = "done"
       ELSE IF ~hin.key
       THEN hresp' = Json(400, FALSE, <<>>, "serviceKey required") /\ hpc' = "done"
       ELSE hresp' = hresp /\ hpc' = "https"
    /\ UNCHANGED <<hin, hlog>>
    /\ UNCHANGED <<resVars, codecVars, pureVars>>

\* try: rows_json = _fetch_once(HTTPS_URL, ...) raises; except Exception: pass
HttpsFails ==
    /\ hpc = "https"
    /\ hlog' = Append(hlog, [scheme |-> "https", ok |-> FALSE, rows |-> <<>>])
    /\ AfterHttps(<<>>)
    /\ UNCHANGED hin
    /\ UNCHANGED <<resVars, codecVars, pureVars>>

\* rows_json = _fetch_once(HTTPS_URL, ...) returns
HttpsAnswers ==
    /\ hpc = "https"
    /\ \E rows \in ApiResponses :
           /\ hlog' = Append(hlog, [scheme |-> "https", ok |-> TRUE, rows |-> rows])
           /\ AfterHttps(rows)
    /\ UNCHANGED hin
    /\ UNCHANGED <<resVars, codecVars, pureVars>>

\* try: rows_json = _fetch_once(HTTP_URL, ...) raises; except: rows_json = []
HttpFails ==
    /\ hpc = "http"
    /\ hlog' = Append(hlog, [scheme |-> "http", ok |-> FALSE, rows |-> <<>>])
    /\ Respond(<<>>)
    /\ UNCHANGED hin
    /\ UNCHANGED <<resVars, codecVars, pureVars>>

\* rows_json = _fetch_once(HTTP_URL, ...) returns
HttpAnswers ==
    /\ hpc = "http"
    /\ \E rows \in ApiResponses :
           /\ hlog' = Append(hlog, [scheme |-> "http", ok |-> TRUE, rows |-> rows])
           /\ Respond(rows)
    /\ UNCHANGED hin
    /\ UNCHANGED <<resVars, codecVars, pureVars>>

NextApi == DoGet \/ HttpsFails \/ HttpsAnswers \/ HttpFails \/ HttpAnswers

SpecApi == InitApi /\ [][NextApi]_vars

----------------------------------------------------------------------------
(* Claims about the resolver *)

Ended == pc \in {"returned", "done"}

\* the codes that the rows of the k-th fetch give under the original query
Yield(k) == IF hist[k].ok THEN _filter_codes(hist[k].rows, q) ELSE <<>>

\* the k-th fetch is the fetch of a province (the first fetch is the direct one)
ScanFetches == {k \in 1..Len(hist) : hist[k].target # 0}

\* the subsequence of the province fetches that ended well (ok = TRUE) or
\* raised (ok = FALSE), as province names
RECURSIVE ProvincesOf(_, _)
ProvincesOf(h, ok) ==
    IF h = <<>> THEN <<>>
    ELSE (IF Head(h).target # 0 /\ Head(h).ok = ok
          THEN <<[prov |-> PROVINCES[Head(h).target], count |-> Len(Head(h).rows)]>>
          ELSE <<>>) \o ProvincesOf(Tail(h), ok)

\* C1: in the scan phase provinces are fetched in the configured order, and
\* the scan stops at the first province whose rows, filtered by the original
\* query's tokens, give a non-empty code set: resolve returns exactly that
\* province's filtered codes and no later province is fetched.
C1_ScanStopsAtFirstMatch ==
    /\ \A k \in 1..Len(hist) : hist[k].target = k - 1
    /\ \A k \in ScanFetches :
           Yield(k) # <<>> =>
               /\ k = Len(hist)
               /\ Ended
               /\ ret = Returned(Yield(k))

\* C2: if the direct phase (fetch with the literal query, filter with the same
\* query) yields at least one code, resolve returns exactly those codes at once
\* and no province is ever fetched, scan enabled or not.
C2_DirectHitReturns ==
    (hist # <<>> /\ Yield(1) # <<>>) =>
        /\ Len(hist) = 1
        /\ Ended
        /\ ret = Returned(Yield(1))

C2_Witness ==
    /\ scan_all
    /\ pc = "done"
    /\ Len(hist) = 1
    /\ Len(ret.codes) = 2
    /\ ret = Returned(Yield(1))

\* C3: if the direct fetch fails and the scan is enabled, resolve does not
\* propagate the failure but goes on to the scan; if a later province returns
\* rows that give codes under the original query, the result is that
\* province's filtered codes, and the debug info holds both the direct-phase
\* failure and the record of the province scanned with success.
C3_DirectFailureRecovered ==
    (hist # <<>> /\ ~hist[1].ok /\ scan_all) =>
        /\ ret.st # "raise"
        /\ dbg.direct_error = RequestError(Tries - 1, SCHEMES[Len(SCHEMES)])
        /\ (Len(hist) = 1 /\ NProv > 0) => pc = "scan" /\ prov = 1
        /\ \A k \in ScanFetches :
               Yield(k) # <<>> =>
                   /\ Ended
                   /\ ret = Returned(Yield(k))
                   /\ dbg.scanned_kind = "list"
                   /\ dbg.scanned # <<>>
                   /\ LET e == dbg.scanned[Len(dbg.scanned)]
                      IN  /\ e.prov = PROVINCES[hist[k].target]
                          /\ e.count = Len(hist[k].rows)

C3_Witness ==
    /\ pc = "done"
    /\ scan_all
    /\ ~hist[1].ok
    /\ Len(hist) = 3
    /\ ret.codes = <<Code_1168010300>>
    /\ dbg.direct_error.type = "OSError"
    /\ Len(dbg.scanned) = 1

\* C4: in the scan phase a fetch failure on one province does not abort the
\* scan: the failure is appended to the debug info's per-province error list,
\* every later province is still fetched in order (until a match is found),
\* and every province fetched with success is recorded in the debug info with
\* its row count.
C4_ScanSurvivesFailures ==
    /\ ret.st # "raise"
    /\ \A k \in 1..Len(hist) : hist[k].target = k - 1
    /\ [i \in 1..Len(dbg.scan_errors) |-> dbg.scan_errors[i].prov] =
           [i \in 1..Len(ProvincesOf(hist, FALSE)) |-> ProvincesOf(hist, FALSE)[i].prov]
    /\ [i \in 1..Len(dbg.scanned) |->
           [prov |-> dbg.scanned[i].prov, count |-> dbg.scanned[i].count]] =
           ProvincesOf(hist, TRUE)
    /\ \A k \in ScanFetches :
           (~hist[k].ok /\ k = Len(hist) /\ hist[k].target < NProv) =>
               pc = "scan" /\ prov = hist[k].target + 1

\* C5: resolve never ends in an error for a not-found outcome: when the direct
\* phase yields no code and the scan (if enabled) finds no match, it returns
\* an empty code set with the debug info, whatever fetches succeeded or failed.
C5_NotFoundIsNoError ==
    /\ ret.st # "raise"
    /\ (Ended /\ \A k \in 1..Len(hist) : Yield(k) = <<>>) => ret = Returned(<<>>)

\* every fetch of the run raised: a transport-error outcome
TransportErrorOutcome == hist # <<>> /\ \A k \in 1..Len(hist) : ~hist[k].ok

\* what main reports when every fetch was answered and no row matched
NotFoundReports == {main(Returned(<<>>), a) : a \in Args}

\* C6: a transport-error outcome is distinguishable from a not-found outcome
\* in the result resolve returns and in what the CLI reports (output and exit
\* status), not only in the debug payload.
C6_TransportErrorDistinct ==
    (pc = "done" /\ TransportErrorOutcome) =>
        /\ ret # Returned(<<>>)
        /\ report \notin NotFoundReports

\* the header of the direct response brought no key that fetch_region_cd keeps
\* in dbg itself
HeaderKeysDisjoint == dbg.head \cap {"scanned", "scan_errors"} = {}

\* what C1, C4 and C5 say holds of every run in which the header of the direct
\* response has no "scanned" and no "scan_errors" key
ScanClaimsUnderDisjointHeader ==
    HeaderKeysDisjoint =>
        /\ C1_ScanStopsAtFirstMatch
        /\ C4_ScanSurvivesFailures
        /\ C5_NotFoundIsNoError

----------------------------------------------------------------------------
(* Claims about the lot parser and the PNU codec *)

IsAsciiDigits(s) == \A i \in 1..Len(s) : s[i] \in AsciiDigits

\* C7: every PNU string that parse_lot -> make_pnu returns is exactly 19
\* characters, all ASCII digits, laid out as 10-digit region code, 1-digit
\* mountain flag, 4-digit main, 4-digit sub.
C7_PnuIs19Digits ==
    (mode = "pipeline" /\ cpc = "done" /\ pnu.st = "ok") =>
        /\ Len(pnu.val) = 19
        /\ IsAsciiDigits(pnu.val)
        /\ Slice(pnu.val, 11, 11) = <<IF lotspec.san = 1 THEN "1" ELSE "0">>
        /\ IntOf(Slice(pnu.val, 12, 15)) = lotspec.main
        /\ IntOf(Slice(pnu.val, 16, 19)) = lotspec.sub

\* the number of decimal digits (as \D of the source counts them) in a text
DigitCount(s) == Cardinality({i \in 1..Len(s) : s[i] \in UnicodeDigits})

\* C8 (as amended): make_pnu fails with the region-code error, returning no
\* PNU string, exactly when the region code does not hold exactly 10 digits;
\* "12345" and "12345678901" fail, and "region-cd-12345-6789x0", which holds
\* exactly 10 digits, succeeds with region part 1234567890.
C8_EncodeRejectsBadRegion ==
    cpc = "done" /\ mode = "encode" =>
        /\ DigitCount(region_cd) # 10 =>
               pnu.st = "error" /\ pnu.val = <<>>
               /\ pnu.err = "ValueError: region_cd length"
        /\ DigitCount(region_cd) = 10 => pnu.st = "ok"
        /\ region_cd \in {Region_12345, Region_12345678901} => pnu.st = "error"
        /\ region_cd = Region_cd_12345_6789x0 =>
               /\ pnu.st = "ok"
               /\ Slice(pnu.val, 1, 10) =
                      <<"1", "2", "3", "4", "5", "6", "7", "8", "9", "0">>

C8_Witness ==
    /\ cpc = "done" /\ mode = "encode"
    /\ region_cd = Region_12345678901
    /\ pnu.st = "error"

\* C8 as first stated: make_pnu fails for every region code that does not
\* strip to exactly 10 digits, "12345", "12345678901" and
\* "region-cd-12345-6789x0" among them.
C8_Original ==
    cpc = "done" /\ mode = "encode" =>
        /\ DigitCount(region_cd) # 10 => pnu.st = "error"
        /\ DigitCount(region_cd) = 10 => pnu.st = "ok"
        /\ region_cd \in {Region_12345, Region_12345678901,
                          Region_cd_12345_6789x0} => pnu.st = "error"

\* positional decoding of a PNU into fields of width 10, 1, 4, 4
Decode(p) ==
    IF Len(p) # 19 \/ \E i \in 11..19 : ~IsDigit(p[i])
    THEN [st |-> "error", r |-> <<>>, m |-> FALSE, main |-> 0, sub |-> 0]
    ELSE [st |-> "ok", r |-> Slice(p, 1, 10), m |-> (p[11] = "1"),
          main |-> IntOf(Slice(p, 12, 15)), sub |-> IntOf(Slice(p, 16, 19))]

IsRegionCode(s) == Len(s) = 10 /\ \A i \in 1..10 : IsDigit(s[i])

\* C9: for every 10-digit region code r, every mountain flag and every main, sub
\* in 0..9999, positionally decoding make_pnu(r, flag, main, sub) gives back
\* (r, flag, main, sub).
C9_RoundTrip ==
    (/\ mode = "encode" /\ cpc = "done"
     /\ IsRegionCode(region_cd)
     /\ lotspec.main \in 0..9999 /\ lotspec.sub \in 0..9999) =>
        /\ pnu.st = "ok"
        /\ Decode(pnu.val) =
               [st |-> "ok", r |-> region_cd, m |-> (lotspec.san # 0),
                main |-> lotspec.main, sub |-> lotspec.sub]

C9_Witness ==
    /\ mode = "encode" /\ cpc = "done"
    /\ region_cd = Region_1168010300
    /\ lotspec = LotOk(1, 9999, 10)
    /\ pnu.st = "ok"
    /\ Decode(pnu.val).main = 9999

\* the marker stands alone at position i of text t
Standalone(t, i) ==
    /\ t[i] = "SAN"
    /\ i = 1 \/ IsSpace(t[i - 1])
    /\ i = Len(t) \/ IsSpace(t[i + 1])

\* t without its first standalone marker
Remaining(t) ==
    LET at == {i \in 1..Len(t) : Standalone(t, i)}
    IN  IF at = {} THEN t
        ELSE LET i == CHOOSE x \in at : \A y \in at : x <= y
             IN  [k \in 1..Len(t) |-> IF k = i THEN " " ELSE t[k]]

\* the positions of t not separated from position j by anything but whitespace
Adjacent(t, j, k) == j < k /\ \A x \in (j + 1)..(k - 1) : IsSpace(t[x])

----------------------------------------------------------------------------
(* Claims about _filter_codes *)

\* the whitespace-delimited tokens of a text: its maximal runs of characters
\* that are not whitespace
TokenSet(s) ==
    {Slice(s, i, j) : <<i, j>> \in
        {p \in (1..Len(s)) \X (1..Len(s)) :
            /\ p[1] <= p[2]
            /\ \A k \in p[1]..p[2] : ~IsSpace(s[k])
            /\ p[1] = 1 \/ IsSpace(s[p[1] - 1])
            /\ p[2] = Len(s) \/ IsSpace(s[p[2] + 1])}}

\* t occurs in text at some position
OccursIn(t, text) ==
    \E i \in 1..Len(text) :
        /\ i + Len(t) - 1 <= Len(text)
        /\ \A j \in 1..Len(t) : text[i + j - 1] = t[j]

\* the two address fields of a row, one after the other with a blank between
Address(r) == r.locatadd_nm \o <<" ">> \o r.locallow_nm

\* every token of the query occurs in the address of the row
Matches(r, query) == \A t \in TokenSet(query) : OccursIn(t, Address(r))

\* the digits of a text, in order
Digits(s) == SelectSeq(s, LAMBDA ch : ch \in UnicodeDigits)

\* the row carries a code that reduces to 10 digits
HasCode(r) == Len(Digits(r.region_cd)) = 10

\* C11: _filter_codes keeps a row exactly when every whitespace-delimited token
\* of the query occurs in the row's two address fields (locatadd_nm and
\* locallow_nm, joined): all tokens, not any.  Of its rows that carry a code,
\* the codes returned are those of the rows that match.  Of the two Gaepo-dong
\* rows, the query "K" gives both codes and "G K" only 1168010300.
C11_AllTokensMatch ==
    ppc = "done" =>
        /\ Range(fout) =
               {Digits(frows[i].region_cd) :
                   i \in {k \in 1..Len(frows) :
                             HasCode(frows[k]) /\ Matches(frows[k], fquery)}}
        /\ (frows = <<Row_SGK, Row_PYK>> /\ fquery = Query_K) =>
               fout = <<Code_1168010300, Code_4159010100>>
        /\ (frows = <<Row_SGK, Row_PYK>> /\ fquery = Query_G_K) =>
               fout = <<Code_1168010300>>

\* the two Gaepo-dong rows under "G K": one token matches the other row too
C11_Witness ==
    /\ ppc = "done"
    /\ frows = <<Row_SGK, Row_PYK>>
    /\ fquery = Query_G_K
    /\ fout = <<Code_1168010300>>

IsTenDigits(c) == Len(c) = 10 /\ \A i \in 1..Len(c) : c[i] \in UnicodeDigits

\* C12: every code that _filter_codes returns is a string of exactly 10 decimal
\* digits: the non-digits of a row's code are stripped, the code is kept only
\* if exactly 10 digits remain, and a row whose code is malformed or missing is
\* dropped without an error.  This is stated of the filter of src/region.py and
\* of the filter of src/region/region.py alike.
C12_CodesAreTenDigits ==
    ppc = "done" =>
        /\ \A c \in Range(fout) \cup Range(fout_v12) : IsTenDigits(c)
        /\ \A i \in 1..Len(frows) :
               (HasCode(frows[i]) /\ Matches(frows[i], fquery)) =>
                   /\ Digits(frows[i].region_cd) \in Range(fout)
                   /\ Digits(frows[i].region_cd) \in Range(fout_v12)

\* the same of the filter of src/region.py alone, which the code satisfies
FilterCodesAreTenDigits ==
    ppc = "done" =>
        /\ \A c \in Range(fout) : IsTenDigits(c)
        /\ \A i \in 1..Len(frows) :
               (HasCode(frows[i]) /\ Matches(frows[i], fquery)) =>
                   Digits(frows[i].region_cd) \in Range(fout)

CodePoint(c) == IF c \in AsciiDigits THEN 48 + DigitVal(c) ELSE 1635

\* a comes before b in lexicographic order
Before(a, b) ==
    \E k \in 1..Len(b) :
        /\ k <= Len(a) + 1
        /\ \A j \in 1..(k - 1) : a[j] = b[j]
        /\ k = Len(a) + 1 \/ CodePoint(a[k]) < CodePoint(b[k])

\* ascending with no code twice
Ascending(c) == \A i, j \in 1..Len(c) : i < j => Before(c[i], c[j])

Reverse(r) == [i \in 1..Len(r) |-> r[Len(r) + 1 - i]]

\* C13: the code list that _filter_codes returns, and the one that resolve
\* returns from the direct phase or the scan, has no code twice and is in
\* ascending lexicographic order, whatever the order of the rows and however
\* often a row comes.
C13_SortedUnique ==
    /\ ppc = "done" =>
           /\ Ascending(fout)
           /\ _filter_codes(Reverse(frows), fquery) = fout
           /\ _filter_codes(frows \o frows, fquery) = fout
    /\ \A k \in 1..Len(hist) : Ascending(Yield(k))
    /\ (Ended /\ ret.st = "return") => Ascending(ret.codes)

\* resolve has returned two codes from rows that came in descending order,
\* one of them twice
C13_Witness ==
    /\ Ended
    /\ Len(ret.codes) = 2
    /\ hist[Len(hist)].rows = <<Row_PYK, Row_SGK, Row_PYK>>

----------------------------------------------------------------------------
(* Claims about main *)

\* main ran in PNU mode on a result that carries codes
PnuModeRun == pc = "done" /\ args.pnu /\ ret.st = "return" /\ ret.codes # <<>>

\* the first code of the sorted list: no code of the list comes before it
IsFirstCode(c) ==
    /\ c = ret.codes[1]
    /\ \A k \in 2..Len(ret.codes) : Before(c, ret.codes[k])

\* the ambiguity rule of the PNU mode
AmbiguityRule ==
    /\ (Len(ret.codes) > 1 /\ ~args.first) =>
           /\ report.exit = 4
           /\ report.kind = "ambiguous"
           /\ report.codes = ret.codes
           /\ report.pnu = <<>>
    /\ (Len(ret.codes) = 1 \/ args.first) =>
           /\ report.exit = 0
           /\ report.kind = "pnu"
           /\ Len(report.pnu) = 19
           /\ IsFirstCode(Slice(report.pnu, 1, 10))

\* C14 as stated: in PNU mode, more than one code without --first ends in the
\* ambiguous-match error (status 4, the candidates reported, no PNU); with
\* --first the PNU is built from the first code of the sorted list; with
\* exactly one code the PNU is built from it, with the flag or without.
C14_Original == PnuModeRun => AmbiguityRule

\* C14: the same, provided --lot is given and parse_lot accepts it; the two
\* tests of the lot come before the test of ambiguity and end with status 2.
C14_AmbiguityNeedsFirst ==
    (PnuModeRun /\ args.lot # <<>> /\ parse_lot(args.lot).st = "ok") =>
        AmbiguityRule

\* two codes, a lot that parses, no --first: status 4 and no PNU
C14_Witness ==
    /\ PnuModeRun
    /\ args.lot = Lot_2_14
    /\ ~args.first
    /\ Len(ret.codes) = 2
    /\ report.exit = 4

\* two codes, a lot that parses, --first: the PNU of the lesser code
FirstCodeTaken ==
    /\ PnuModeRun
    /\ args.lot = Lot_2_14
    /\ args.first
    /\ Len(ret.codes) = 2
    /\ report.exit = 0

----------------------------------------------------------------------------
(* Claims about _fetch_json_with_fallback *)

RequestOrder == <<"https", "http", "https", "http">>

\* C15: the requests of one fetch are a prefix of (https, http, https, http):
\* at most 2 attempts, each trying https and then http, and http is requested
\* in an attempt only after https has failed in the same attempt.
C15_RequestOrder ==
    /\ Len(reqs) <= Len(RequestOrder)
    /\ \A i \in 1..Len(reqs) :
           /\ reqs[i].scheme = RequestOrder[i]
           /\ reqs[i].attempt = (i - 1) \div 2
           /\ reqs[i].attempt < 2
           /\ reqs[i].scheme = "http" =>
                  /\ i > 1
                  /\ reqs[i - 1].scheme = "https"
                  /\ reqs[i - 1].attempt = reqs[i].attempt
                  /\ ~reqs[i - 1].ok

\* a fetch that went through all four requests
C15_Witness ==
    /\ Len(reqs) = 4
    /\ reqs[4].scheme = "http"
    /\ reqs[4].attempt = 1

\* the last request logged
LastReq == reqs[Len(reqs)]
\* the fetch that ended last
LastFetch == hist[Len(hist)]

\* C16: the first request that succeeds ends the fetch at once with the rows
\* of that response: no other scheme or attempt follows in that fetch, also
\* when the response carries no row (an empty answer is not retried).
C16_FirstSuccessEnds ==
    /\ \A i \in 1..(Len(reqs) - 1) : ~reqs[i].ok
    /\ (reqs # <<>> /\ LastReq.ok) =>
           /\ hist # <<>>
           /\ LastFetch.ok
           /\ LastFetch.rows = LastReq.rows
           /\ attempt = 0 /\ scheme = 1
           /\ InFetch => prov = Len(hist)

\* the direct fetch was answered at once with no row, and the run went on to
\* the first province
C16_Witness ==
    /\ Len(reqs) = 1
    /\ LastReq.ok
    /\ LastReq.rows = <<>>
    /\ Len(hist) = 1
    /\ pc = "scan"
    /\ prov = 1

\* a fetch was answered with rows by its third request
AnsweredLate ==
    /\ Len(reqs) = 3
    /\ LastReq.ok
    /\ LastReq.rows # <<>>

\* the log is that of the fetch that ended last: no later fetch has started
LogOfLastFetch == hist # <<>> /\ reqs # <<>> /\ attempt = 0 /\ scheme = 1

\* C17: a fetch fails only after all four of its requests have failed, and
\* the failure it raises is the error of the last request, the http request
\* of the second attempt.
C17_FailsAfterFour ==
    (LogOfLastFetch /\ ~LastFetch.ok) =>
        /\ Len(reqs) = 4
        /\ \A i \in 1..4 : ~reqs[i].ok
        /\ LastFetch.err.type = "OSError"
        /\ LastFetch.err.scheme = "http"
        /\ LastFetch.err.attempt = 1

\* the fetch of a province has failed
C17_Witness ==
    /\ LogOfLastFetch
    /\ ~LastFetch.ok
    /\ LastFetch.target = 2
    /\ Len(reqs) = 4

----------------------------------------------------------------------------
(* Claims about _rows_from_json *)

\* the blocks of the body, when it has the expected shape
BlocksOf(data) ==
    IF data.dict /\ data.StanReginCd.kind = "list"
    THEN data.StanReginCd.items ELSE <<>>

\* the block carries a header: a non-empty "head" list whose first element
\* is a dict
HasHeader(b) ==
    b.dict /\ b.head.kind = "list" /\ b.head.items # <<>> /\ b.head.items[1].dict

HeaderOf(b) == b.head.items[1].val

\* the rows of a block: the dicts of its "row" list
RowsOf(b) ==
    IF b.dict /\ b.row.kind = "list"
    THEN SelectSeq(b.row.items, LAMBDA x : x.dict) ELSE <<>>

\* the rows of the blocks up to the k-th, in block order
RECURSIVE RowsUpTo(_, _)
RowsUpTo(bs, k) ==
    IF k = 0 THEN <<>>
    ELSE RowsUpTo(bs, k - 1) \o [i \in 1..Len(RowsOf(bs[k])) |-> RowsOf(bs[k])[i].val]

\* the rows returned are those of all blocks, in block order
RowsConcatenated ==
    ppc = "done" => eout.rows = RowsUpTo(BlocksOf(env), Len(BlocksOf(env)))

\* the blocks that carry a header
WithHeader == {k \in 1..Len(BlocksOf(env)) : HasHeader(BlocksOf(env)[k])}

\* C18: _rows_from_json returns the rows of all blocks concatenated in block
\* order, and as metadata the header of the first block that has a non-empty
\* header: the header of a later block never replaces it.
C18_FirstHeaderWins ==
    ppc = "done" =>
        /\ eout.rows = RowsUpTo(BlocksOf(env), Len(BlocksOf(env)))
        /\ WithHeader = {} => eout.head = {}
        /\ \A k \in WithHeader :
               (\A j \in WithHeader : k <= j) =>
                   eout.head = HeaderOf(BlocksOf(env)[k])

\* what the code does: the header of the last block that has one is returned
LastHeaderWins ==
    ppc = "done" =>
        /\ WithHeader = {} => eout.head = {}
        /\ \A k \in WithHeader :
               (\A j \in WithHeader : j <= k) =>
                   eout.head = HeaderOf(BlocksOf(env)[k])

----------------------------------------------------------------------------
(* Claims about the requests of a whole run *)

\* 2 attempts x 2 schemes x (the direct fetch + one fetch per province)
MostRequests == 2 * 2 * (1 + Len(PROVINCES))

\* C19: every call of fetch_region_cd ends, after at most
\* 2 x 2 x (1 + number of provinces) requests made one after the other: each
\* step of the run is one request, or the one step of main after the return,
\* and a run that has not ended can take a step.  With the scan off there are
\* at most 4 requests and no province is fetched.
C19_BoundedRequests ==
    /\ [](nreq <= MostRequests)
    /\ [](~scan_all =>
             /\ nreq <= 4
             /\ prov = 0
             /\ \A k \in 1..Len(hist) : hist[k].target = 0)
    /\ [](InFetch => ENABLED Next)
    /\ [][\/ InFetch /\ nreq' = nreq + 1
          \/ pc = "returned" /\ pc' = "done" /\ nreq' = nreq]_vars

\* a run in which every request failed: the most requests there can be
C19_Witness ==
    /\ Ended
    /\ scan_all
    /\ nreq = MostRequests
    /\ Len(hist) = 1 + Len(PROVINCES)

\* the scan is off and the direct fetch failed after 4 requests
NoScanFourRequests == Ended /\ ~scan_all /\ nreq = 4

----------------------------------------------------------------------------
(* Claims about the query *)

\* a text with the whitespace at its ends dropped and every run of whitespace
\* inside it made one blank
RECURSIVE Collapsed(_)
Collapsed(s) ==
    IF s = <<>> THEN <<>>
    ELSE IF IsSpace(Head(s))
    THEN IF Tail(s) = <<>> \/ IsSpace(Head(Tail(s)))
         THEN Collapsed(Tail(s))
         ELSE <<" ">> \o Collapsed(Tail(s))
    ELSE <<Head(s)>> \o Collapsed(Tail(s))

Normalised(s) ==
    LET c == Collapsed(s)
    IN  IF c # <<>> /\ Head(c) = " " THEN Tail(c) ELSE c

\* the text that the registry reads out of a percent-encoded parameter
Unquoted(s) ==
    [i \in 1..Len(s) |->
        CASE s[i] = "%20" -> " "
          [] s[i] = "%09" -> "\t"
          [] OTHER -> s[i]]

\* C20: the filter that a request of the direct phase carries to the registry
\* is the normalised query (trimmed, each run of whitespace inside made one
\* blank), and the tokens matched against the rows are those of that same
\* normalised text.
C20_QueryNormalised ==
    /\ \A i \in 1..Len(reqs) :
           reqs[i].target = 0 =>
               Unquoted(reqs[i].qs.locatadd_nm) = Normalised(q)
    /\ Range(Tokens(q)) = TokenSet(Normalised(q))

\* what the code does: the filter is the query as it was given
QuerySentAsGiven ==
    /\ \A i \in 1..Len(reqs) :
           reqs[i].target = 0 => Unquoted(reqs[i].qs.locatadd_nm) = q
    /\ Range(Tokens(q)) = TokenSet(Normalised(q))

----------------------------------------------------------------------------
(* Claims about the handler of src/region/api/region.py *)

\* _codes was called and the handler has answered
LookupDone == hpc = "done" /\ hlog # <<>>

\* the answer of a lookup that found nothing
NotFoundAnswer == Json(200, TRUE, <<>>, "none")

\* C21: _codes makes at most two requests and lets no fetch error out: one
\* https request, then one http request only if the https request failed or
\* gave no row (so an answer without rows is asked again, unlike in
\* _fetch_json_with_fallback), and an empty list when both fail; the handler
\* then answers a transport failure as it answers nothing found, with status
\* 200 and no codes.
C21_TwoRequestsNoError ==
    /\ Len(hlog) <= 2
    /\ \A i \in 1..Len(hlog) : hlog[i].scheme = <<"https", "http">>[i]
    /\ Len(hlog) = 2 => (~hlog[1].ok \/ hlog[1].rows = <<>>)
    /\ LookupDone =>
           /\ hresp.status = 200 /\ hresp.ok
           /\ (~hlog[1].ok \/ hlog[1].rows = <<>>) => Len(hlog) = 2
           /\ (\A i \in 1..Len(hlog) : ~hlog[i].ok) => hresp = NotFoundAnswer
           /\ (\A i \in 1..Len(hlog) : hlog[i].rows = <<>>) =>
                  hresp = NotFoundAnswer

\* both requests failed and the handler answered 200 with no codes
C21_Witness ==
    /\ LookupDone
    /\ Len(hlog) = 2
    /\ ~hlog[1].ok /\ ~hlog[2].ok
    /\ hresp = NotFoundAnswer

\* https answered without rows and http was asked, which gave codes
AskedAgainAfterEmpty ==
    /\ LookupDone
    /\ hlog[1].ok /\ hlog[1].rows = <<>>
    /\ Len(hlog) = 2
    /\ hresp.codes # <<>>

============================================================================
